---- MODULE Spec2Model ----
(***************************************************************************)
(* twitch-companion: the live-mode audio feed and transcription loop       *)
(* (worker/live.py), the batch-mode transcription pipeline                 *)
(* (worker/transcriber.py, worker/recorder.py) and the response gate of    *)
(* TwitchWatcher (main.py), as state machines.                             *)
(*                                                                         *)
(* Time is counted in ticks of half a second (Sec(n) ticks = n seconds).   *)
(***************************************************************************)
EXTENDS Integers, Sequences, FiniteSets, TLC

VARIABLES
    \* ---- live mode: TwitchStreamAudio (worker/live.py)
    buffer_queue,   \* queue.Queue(maxsize=10): sequence of chunk numbers
    audio_running,  \* TwitchStreamAudio.running
    proc_alive,     \* ffmpeg_proc.poll() is None
    rpc,            \* position of the _reader_loop thread
    rexit,          \* why the reader thread ended ("" while it lives)
    data,           \* the reader's local `data` (0 = b"", k = chunk k)
    nread,          \* chunks delivered by the subprocess so far
    apc,            \* position of the read_audio caller
    got,            \* chunks in read_audio's local `buf`
    audio_len,      \* chunks in the array the last read_audio call returned
    pushed,         \* history: chunks the reader has put in the queue
    consumed,       \* history: chunks read_audio has taken from the queue
    evicted,        \* history: chunks discarded by the overflow handler
    acall,          \* history: what the reader and the queue were like when
                    \* the read_audio call in progress (or the last one) began
    \* ---- batch mode: TwitchRecorder, TwitchTranscriber
    now,            \* time.time(), in ticks
    segment_time,   \* TwitchTranscriber.segment_time, in ticks
    n_models,       \* TwitchTranscriber.n_models
    do_remove,      \* TwitchTranscriber.do_remove
    stream_len,     \* segment files the stream lasts for
    nfiles,         \* segment files chunk_00001 .. created so far
    ctime,          \* os.path.getctime of each created file
    on_disk,        \* files present in audio_dir
    finalized,      \* files the capture subprocess has finished writing
    stalled,        \* the capture subprocess has stalled for good
    running,        \* TwitchTranscriber.running
    spc,            \* position of the _scanner_loop thread
    listing,        \* what is left of the glob("*.wav") listing being iterated
    seen,           \* _scanner_loop's local `seen`
    file_queue,     \* TwitchTranscriber.file_queue (unbounded FIFO)
    wpc,            \* position of each _model_worker thread
    wfile,          \* each worker's local `wav_file` (0 = none)
    attempts,       \* remove_file's loop counter, per worker
    transcript,     \* lines of transcript.txt, each the file it transcribes
    stop_pc,        \* position of the caller of TwitchTranscriber.stop()
    enq_count,      \* history: scanner puts, per file
    fresh,          \* history: files the scanner has put since the last tick
    reseen,         \* history: files the scanner has met again, already seen
    failed,         \* history: files whose processing raised in a worker
    hist,           \* history of the shutdown, per thread
    \* ---- live mode: LiveWhisperTranscriber (worker/live.py)
    loop_running,   \* LiveWhisperTranscriber.running
    lpc,            \* position of the _loop thread
    buffer,         \* LiveWhisperTranscriber.buffer, one entry per second of
                    \* samples: 0 = the zeros of __init__, 1 = captured audio
    live_lines,     \* lines _loop has appended to its transcript.txt
    \* ---- get_latest_transcription (worker/live.py)
    out_file,       \* transcript.txt as the call finds it: whether it exists
                    \* and its lines, each the texts its double spaces separate
    latest_n,       \* the argument n of the call (-1 before any call)
    latest,         \* what the call returned
    \* ---- the response gate of TwitchWatcher (main.py)
    response_interval,  \* TwitchWatcher.response_interval, in ticks
    on_work_response,   \* TwitchWatcher.on_work_response
    word_flagged,       \* TwitchWatcher.word_flagged ("unset": no attribute)
    last_response,      \* TwitchWatcher.last_response, in ticks
    gpc,                \* position of the caller of generate_response
    sr_result,          \* what the last should_respond call did
    sr_in,              \* history: what that call had to go by
    flag_matched,       \* history: recognized text has contained a flag word
    responses,          \* history: when each completed response was marked
    \* ---- transcript.txt below the line level (worker/transcriber.py)
    tbytes,         \* the file's content, in units of text: <<f, k>> is the
                    \* k-th unit of the line written for file f
    wpos            \* per worker: the file offset its pending write goes to

liveVars == <<buffer_queue, audio_running, proc_alive, rpc, rexit, data, nread,
              apc, got, audio_len, pushed, consumed, evicted, acall>>

batchVars == <<now, segment_time, n_models, do_remove, stream_len, nfiles, ctime, on_disk,
               finalized, stalled, running, spc, listing, seen, file_queue,
               wpc, wfile, attempts, transcript, stop_pc,
               enq_count, fresh, reseen, failed, hist>>

loopVars == <<loop_running, lpc, buffer, live_lines>>

latestVars == <<out_file, latest_n, latest>>

gateVars == <<response_interval, on_work_response, word_flagged, last_response,
              gpc, sr_result, sr_in, flag_matched, responses>>

appendVars == <<tbytes, wpos>>

\* the state of the parts added beside the audio feed and the batch pipeline
extVars == <<loopVars, latestVars, gateVars, appendVars>>

vars == <<liveVars, batchVars, extVars>>

\* ------------------------------------------------------------------ bounds

\* chunks the capture subprocess delivers before the model stops the stream
MaxChunks == 12

\* segment files the stream lasts for when the scanner is followed alone
MaxFiles == 3

\* segment files the stream lasts for when the whole pipeline is followed
PipeFiles == 2

\* lines of the transcript file get_latest_transcription is given
MaxLines == 3

\* the largest n get_latest_transcription is called with
MaxN == 4

\* ------------------------------------------------------- program constants

\* queue.Queue(maxsize=10)
QueueMaxSize == 10

\* read_audio(duration_sec=3): three one-second chunks fill `buf`
DurationSec == 3

\* LiveWhisperTranscriber(window_sec=6): seconds of audio in the window
WindowSec == 6

\* ---------------------------------------------------------------- helpers

Range(s) == {s[i] : i \in 1..Len(s)}

\* the sequence <<a, a+1, ..., b>> (empty when a > b)
Interval(a, b) == [i \in 1..(IF b >= a THEN b - a + 1 ELSE 0) |-> a + i - 1]

Max(a, b) == IF a >= b THEN a ELSE b

\* ===================================================== live mode (live.py)

\* queue.Queue.full() as put_nowait tests it
QueueFull(q) == Len(q) >= QueueMaxSize

DropNewest(q) == SubSeq(q, 1, Len(q) - 1)

\* `_ = self.buffer_queue.get_nowait()  # drop oldest`
DropOldest(q) == Tail(q)

InitLive ==
    /\ buffer_queue = <<>>
    /\ audio_running = TRUE
    /\ proc_alive = TRUE
    /\ rpc = "while"
    /\ rexit = ""
    /\ data = 0
    /\ nread = 0
    /\ apc = "idle"
    /\ got = 0
    /\ audio_len = 0
    /\ pushed = 0
    /\ consumed = 0
    /\ evicted = <<>>
    /\ acall = "none"

\* `while self.running:`
ReaderWhile ==
    /\ rpc = "while"
    /\ IF audio_running
          THEN rpc' = "read" /\ rexit' = rexit
          ELSE rpc' = "done" /\ rexit' = "stopped"
    /\ UNCHANGED <<batchVars, extVars, acall, buffer_queue, audio_running, proc_alive, data, nread,
                   apc, got, audio_len, pushed, consumed, evicted>>

\* `data = self.ffmpeg_proc.stdout.read(chunk_size)`: the next chunk while the
\* subprocess delivers, b"" at end of file, which the subprocess reaches when
\* the stream is over (still running, about to exit) or by exiting
ReaderRead ==
    /\ rpc = "read"
    /\ \/ /\ proc_alive
          /\ nread < MaxChunks
          /\ nread' = nread + 1
          /\ data' = nread + 1
       \/ /\ proc_alive
          /\ nread = MaxChunks
          /\ data' = 0
          /\ nread' = nread
       \/ /\ ~proc_alive
          /\ data' = 0
          /\ nread' = nread
    /\ rpc' = "poll"
    /\ UNCHANGED <<batchVars, extVars, acall, buffer_queue, audio_running, proc_alive, rexit,
                   apc, got, audio_len, pushed, consumed, evicted>>

\* `if self.ffmpeg_proc.poll() is not None: break` / `if not data: break`
ReaderPoll ==
    /\ rpc = "poll"
    /\ IF ~proc_alive
          THEN rpc' = "done" /\ rexit' = "process exited"
          ELSE IF data = 0
                  THEN rpc' = "done" /\ rexit' = "zero bytes"
                  ELSE rpc' = "put" /\ rexit' = rexit
    /\ UNCHANGED <<batchVars, extVars, acall, buffer_queue, audio_running, proc_alive, data, nread,
                   apc, got, audio_len, pushed, consumed, evicted>>

\* `self.buffer_queue.put_nowait(data)` in the try block; queue.Full enters
\* the handler
ReaderPut ==
    /\ rpc = "put"
    /\ IF QueueFull(buffer_queue)
          THEN /\ rpc' = "full"
               /\ UNCHANGED <<buffer_queue, pushed>>
          ELSE /\ buffer_queue' = Append(buffer_queue, data)
               /\ pushed' = pushed + 1
               /\ rpc' = "while"
    /\ UNCHANGED <<batchVars, extVars, acall, audio_running, proc_alive, rexit, data, nread,
                   apc, got, audio_len, consumed, evicted>>

\* `_ = self.buffer_queue.get_nowait()` in the handler; queue.Empty is caught
\* nowhere and ends the thread
ReaderDrop ==
    /\ rpc = "full"
    /\ IF buffer_queue = <<>>
          THEN /\ rpc' = "dead"
               /\ rexit' = "queue.Empty"
               /\ UNCHANGED <<buffer_queue, evicted>>
          ELSE /\ evicted' = Append(evicted,
                                    [chunk |-> Head(buffer_queue),
                                     qlen |-> Len(buffer_queue)])
               /\ buffer_queue' = DropOldest(buffer_queue)
               /\ rpc' = "reput"
               /\ rexit' = rexit
    /\ UNCHANGED <<batchVars, extVars, acall, audio_running, proc_alive, data, nread,
                   apc, got, audio_len, pushed, consumed>>

\* the handler's `self.buffer_queue.put_nowait(data)`
ReaderReput ==
    /\ rpc = "reput"
    /\ IF QueueFull(buffer_queue)
          THEN /\ rpc' = "dead"
               /\ rexit' = "queue.Full"
               /\ UNCHANGED <<buffer_queue, pushed>>
          ELSE /\ buffer_queue' = Append(buffer_queue, data)
               /\ pushed' = pushed + 1
               /\ rpc' = "while"
               /\ rexit' = rexit
    /\ UNCHANGED <<batchVars, extVars, acall, audio_running, proc_alive, data, nread,
                   apc, got, audio_len, consumed, evicted>>

\* the capture subprocess exits on its own
ProcExit ==
    /\ proc_alive
    /\ proc_alive' = FALSE
    /\ UNCHANGED <<batchVars, extVars, acall, buffer_queue, audio_running, rpc, rexit, data, nread,
                   apc, got, audio_len, pushed, consumed, evicted>>

\* TwitchStreamAudio.stop(): running = False, the subprocess is terminated
AudioStop ==
    /\ audio_running
    /\ audio_running' = FALSE
    /\ proc_alive' = FALSE
    /\ UNCHANGED <<batchVars, extVars, acall, buffer_queue, rpc, rexit, data, nread,
                   apc, got, audio_len, pushed, consumed, evicted>>

ReusedBuf(g) == g

\* `buf = bytearray()`: every call starts from an empty buffer
NewBuf(g) == 0

\* the _reader_loop thread has ended, by a break, the flag or an exception
ReaderEnded == rpc \in {"done", "dead"}

\* read_audio is entered: `total_bytes = ...`, `buf = bytearray()`
ReadAudioEnter ==
    /\ apc = "idle"
    /\ apc' = "loop"
    /\ got' = NewBuf(got)
    /\ acall' = IF ~ReaderEnded THEN "early"
                ELSE IF buffer_queue = <<>> THEN "late_empty" ELSE "late"
    /\ UNCHANGED <<batchVars, buffer_queue, audio_running, proc_alive, rpc, rexit, data,
                   nread, audio_len, pushed, consumed, evicted>>

\* read_audio is called by a consumer of its own
ReadAudioCall ==
    /\ ReadAudioEnter
    /\ UNCHANGED extVars

\* `buf.extend(self.buffer_queue.get(timeout=1))` while len(buf) < total_bytes
ReadAudioGet ==
    /\ apc = "loop"
    /\ got < DurationSec
    /\ buffer_queue # <<>>
    /\ buffer_queue' = Tail(buffer_queue)
    /\ got' = got + 1
    /\ consumed' = consumed + 1
    /\ UNCHANGED <<batchVars, extVars, acall, audio_running, proc_alive, rpc, rexit, data, nread,
                   apc, audio_len, pushed, evicted>>

\* `except queue.Empty: break` after the one-second timeout, or the loop
\* condition failing; then `return audio`
ReadAudioReturn ==
    /\ apc = "loop"
    /\ got = DurationSec \/ buffer_queue = <<>>
    /\ apc' = "idle"
    /\ audio_len' = got
    /\ UNCHANGED <<batchVars, extVars, acall, buffer_queue, audio_running, proc_alive, rpc, rexit, data,
                   nread, got, pushed, consumed, evicted>>

\* ---- LiveWhisperTranscriber

\* the array read_audio returned: one entry per second of audio it got
NewAudio(n) == [i \in 1..n |-> 1]

\* np.roll(a, -k): the first k entries move to the end
Roll(a, k) == SubSeq(a, k + 1, Len(a)) \o SubSeq(a, 1, k)

SpliceAppend(buf, new) == buf \o new

\* `self.buffer = np.roll(self.buffer, -len(new_audio))`, then
\* `self.buffer[-len(new_audio):] = new_audio.copy()`
Splice(buf, new) ==
    SubSeq(Roll(buf, Len(new)), 1, Len(buf) - Len(new)) \o new

\* the state after LiveWhisperTranscriber(streamer, out_dir), started or not
InitLoop(started) ==
    /\ loop_running = started
    /\ lpc = IF started THEN "while" ELSE "idle"
    /\ buffer = [i \in 1..WindowSec |-> 0]
    /\ live_lines = 0

\* `while self.running:`
LoopWhile ==
    /\ lpc = "while"
    /\ lpc' = IF loop_running THEN "call" ELSE "done"
    /\ UNCHANGED <<liveVars, batchVars, latestVars, appendVars, gateVars,
                   loop_running, buffer, live_lines>>

\* `new_audio = self.streamer.read_audio(duration_sec=self.step_sec)`, with
\* step_sec = 3, is entered
LoopCall ==
    /\ lpc = "call"
    /\ ReadAudioEnter
    /\ lpc' = "read"
    /\ UNCHANGED <<latestVars, appendVars, gateVars, loop_running, buffer, live_lines>>

\* read_audio has returned: `if len(new_audio) == 0:` sleep half a second
\* and go round again; else the new audio is spliced into the window
LoopSplice ==
    /\ lpc = "read"
    /\ apc = "idle"
    /\ IF audio_len = 0
          THEN /\ lpc' = "sleep"
               /\ buffer' = buffer
          ELSE /\ lpc' = "transcribe"
               /\ buffer' = Splice(buffer, NewAudio(audio_len))
    /\ UNCHANGED <<liveVars, batchVars, latestVars, appendVars, gateVars,
                   loop_running, live_lines>>

\* `segments, _ = self.model.transcribe(self.buffer, beam_size=1)` and the
\* append of the text when it is not blank; nothing catches what the engine
\* or the write raises
LoopTranscribe ==
    /\ lpc = "transcribe"
    /\ \/ /\ live_lines' = live_lines + 1
          /\ lpc' = "sleep"
       \/ /\ live_lines' = live_lines
          /\ lpc' = "sleep"
       \/ /\ live_lines' = live_lines
          /\ lpc' = "dead"
    /\ UNCHANGED <<liveVars, batchVars, latestVars, appendVars, gateVars, loop_running, buffer>>

\* `time.sleep(0.5)` ... `continue`, or `time.sleep(self.step_sec * 0.9)`
LoopSleep ==
    /\ lpc = "sleep"
    /\ lpc' = "while"
    /\ UNCHANGED <<liveVars, batchVars, latestVars, appendVars, gateVars,
                   loop_running, buffer, live_lines>>

\* LiveWhisperTranscriber.stop(): `self.running = False`
LoopStop ==
    /\ loop_running
    /\ loop_running' = FALSE
    /\ UNCHANGED <<liveVars, batchVars, latestVars, appendVars, gateVars, lpc, buffer, live_lines>>

\* ---- get_latest_transcription

\* the lines _loop writes: text without a double space, or two texts with a
\* double space between them (a segment with no text in the middle of the
\* join, or a double space in what the engine returned); never a blank line
Lines == {<<1>>, <<2>>, <<1, 2>>}

\* the transcript files the call may find: none, or up to MaxLines lines
OutFiles ==
    {[exists |-> FALSE, lines |-> <<>>]}
      \cup {[exists |-> TRUE, lines |-> l] :
               l \in UNION {[1..k -> Lines] : k \in 0..MaxLines}}

FirstN(lines, n) == SubSeq(lines, 1, IF n < Len(lines) THEN n ELSE Len(lines))

\* the slice `lines[-n:]`: -0 is 0, so n = 0 takes the whole list
LastN(lines, n) ==
    IF n = 0 THEN lines
    ELSE SubSeq(lines, Max(Len(lines) - n, 0) + 1, Len(lines))

\* `line.strip()` then `line.split("  ")[-1]`: what follows the last double
\* space of the line
TextOf(line) == <<line[Len(line)]>>

\* get_latest_transcription(n): "" for a missing or empty file (written <<>>
\* here), else the list of the texts of the last n lines
get_latest_transcription(f, n) ==
    IF ~f.exists THEN <<>>
    ELSE IF f.lines = <<>> THEN <<>>
    ELSE [i \in 1..Len(LastN(f.lines, n)) |-> TextOf(LastN(f.lines, n)[i])]

InitLatest(files) ==
    /\ out_file \in files
    /\ latest_n = -1
    /\ latest = <<>>

\* a call get_latest_transcription(n)
LatestCall ==
    /\ \E n \in 0..MaxN :
          /\ latest_n' = n
          /\ latest' = get_latest_transcription(out_file, n)
    /\ out_file' = out_file
    /\ UNCHANGED <<liveVars, batchVars, loopVars, gateVars, appendVars>>

\* ================================== batch mode (recorder.py, transcriber.py)

\* n seconds, in ticks
Sec(n) == 2 * n

\* `self.segment_time = 10` of TwitchWatcher, passed to recorder and transcriber
WatcherSegmentTime == Sec(10)

\* the `+ 2` of `created_time + (self.segment_time + 2) < time.time()`
Grace == Sec(2)

\* `for _ in range(10)` of remove_file
RemoveTries == 10

\* the values of n_models the pipeline is run with
ModelCounts == {1, 2}

\* the worker threads start() creates: `for idx in range(self.n_models)`
Workers == 1..n_models

\* the scanner thread, beside the workers, in the per-thread histories
Scanner == 0

Threads == Workers \cup {Scanner}

\* the orders glob("*.wav") may list a set of files in
Listings(S) ==
    {q \in [1..Cardinality(S) -> S] : \A i, j \in 1..Cardinality(S) :
                                          i # j => q[i] # q[j]}

\* the model follows the clock until every file written could be enqueued
Horizon == (stream_len + 1) * segment_time + Grace

EligibleWithoutGrace(created, seg, t) == created + seg < t

EligibleAtThreshold(created, seg, t) == created + (seg + Grace) <= t

\* `created_time + (self.segment_time + 2) < time.time()`
Eligible(created, seg, t) == created + (seg + Grace) < t

SeenForgets(s, f) == s

\* `seen.add(wav_file)`
SeenAdd(s, f) == s \cup {f}

\* has_speech(): `return True` ahead of the detector
has_speech(f) == TRUE

\* `while self.running:` of _model_worker
WorkerLoopTest(r) == IF r THEN "get" ELSE "done"

RewriteFile(lines, l) == <<l>>

\* `with open(self.out_file, "a", ...) as f: f.write(...)`: one line more at
\* the end of the file
AppendLine(lines, l) == Append(lines, l)

RemoveLoopNeverEnds(k) == FALSE

\* `for _ in range(10)` has run k times without a `break`
RemoveLoopEnds(k) == k >= RemoveTries

WorkerDiesOnException == "dead"

\* `except Exception as e: logger.error(...)`, then the loop goes on
WorkerOnException == "while"

\* threading.Thread.is_alive()
WorkerAlive(w) == wpc[w] \notin {"done", "dead"}

ScannerAlive == spc \notin {"done", "dead"}

AliveThreads == {w \in Workers : WorkerAlive(w)}
                    \cup (IF ScannerAlive THEN {Scanner} ELSE {})

AnyWorkerAlive == \E w \in Workers : WorkerAlive(w)

\* `any(t.is_alive() for t in self.worker_threads) or
\*  self.scanner_thread.is_alive()`
AnyAlive == (\E w \in Workers : WorkerAlive(w)) \/ ScannerAlive

\* the state after TwitchTranscriber(audio_dir, seg, n_models=n).start(), with
\* do_remove as the caller set it; audio_dir is empty and the stream is about
\* to deliver len segments, or (recorded) it holds the len segments of a
\* stream that has ended
InitBatch(seg, n, rm, len, recorded) ==
    /\ now = IF recorded THEN (len + 1) * seg + Grace ELSE 0
    /\ segment_time = seg
    /\ n_models = n
    /\ do_remove = rm
    /\ stream_len = len
    /\ nfiles = IF recorded THEN len ELSE 0
    /\ ctime = [f \in 1..len |-> IF recorded THEN (f - 1) * seg ELSE 0]
    /\ on_disk = IF recorded THEN 1..len ELSE {}
    /\ finalized = IF recorded THEN 1..len ELSE {}
    /\ stalled = FALSE
    /\ running = TRUE
    /\ spc = "while"
    /\ listing = <<>>
    /\ seen = {}
    /\ file_queue = <<>>
    /\ wpc = [w \in 1..n |-> "while"]
    /\ wfile = [w \in 1..n |-> 0]
    /\ attempts = [w \in 1..n |-> 0]
    /\ transcript = <<>>
    /\ stop_pc = "idle"
    /\ enq_count = [f \in 1..len |-> 0]
    /\ fresh = {}
    /\ reseen = {}
    /\ failed = {}
    /\ hist = [at_stop |-> [t \in 1..n |-> ""],
               gets |-> [t \in 1..n |-> 0],
               polls |-> [t \in (1..n) \cup {Scanner} |-> 0],
               recogs |-> [t \in 1..n |-> 0],
               alive_at_check |-> {}]

recVars == <<nfiles, ctime, finalized, stalled>>
scanVars == <<spc, listing, seen, enq_count, fresh, reseen>>
workVars == <<wpc, wfile, attempts, transcript, failed>>
stopVars == <<stop_pc>>
confVars == <<segment_time, n_models, do_remove, stream_len>>

\* ---- the clock and the capture subprocess (ffmpeg -f segment)

\* the segment muxer is due to close file nfiles and open the next one
SegmentDue ==
    /\ ~stalled
    /\ now = nfiles * segment_time
    /\ nfiles < stream_len \/ nfiles \notin finalized

Tick ==
    /\ now < Horizon
    /\ ~SegmentDue
    /\ now' = now + 1
    /\ fresh' = {}
    /\ UNCHANGED <<liveVars, extVars, confVars, recVars, on_disk, running, spc, listing, seen,
                   enq_count, reseen, file_queue, workVars, stopVars, hist>>

\* every segment_time the muxer finishes chunk_<nfiles> and creates the next
NextSegment ==
    /\ SegmentDue
    /\ finalized' = finalized \cup (IF nfiles >= 1 THEN {nfiles} ELSE {})
    /\ IF nfiles < stream_len
          THEN /\ nfiles' = nfiles + 1
               /\ ctime' = [ctime EXCEPT ![nfiles + 1] = now]
               /\ on_disk' = on_disk \cup {nfiles + 1}
          ELSE UNCHANGED <<nfiles, ctime, on_disk>>
    /\ stalled' = stalled
    /\ UNCHANGED <<liveVars, extVars, now, confVars, running, scanVars, file_queue, workVars,
                   stopVars, hist>>

\* the upstream stops delivering: the file being written is never finished
WriterStall ==
    /\ ~stalled
    /\ nfiles >= 1
    /\ nfiles \notin finalized
    /\ stalled' = TRUE
    /\ UNCHANGED <<liveVars, extVars, now, confVars, nfiles, ctime, finalized, on_disk, running,
                   scanVars, file_queue, workVars, stopVars, hist>>

\* ---- _scanner_loop

\* `while self.running:` and the listing `self.audio_dir.glob("*.wav")`
ScanWhile ==
    /\ spc = "while"
    /\ IF running
          THEN /\ spc' = "for"
               /\ listing' \in Listings(on_disk)
          ELSE /\ spc' = "done"
               /\ listing' = listing
    /\ UNCHANGED <<liveVars, extVars, now, confVars, recVars, on_disk, running, seen, enq_count,
                   fresh, reseen, file_queue, workVars, stopVars, hist>>

\* one iteration of `for wav_file in ...`: getctime, the test, put, seen.add
ScanFile ==
    /\ spc = "for"
    /\ listing # <<>>
    /\ LET f == Head(listing)
       IN  IF f \notin on_disk
              THEN \* get_create_time raises FileNotFoundError: caught nowhere
                   /\ spc' = "dead"
                   /\ UNCHANGED <<listing, seen, enq_count, fresh, reseen,
                                  file_queue, on_disk>>
              ELSE /\ spc' = spc
                   /\ listing' = Tail(listing)
                   /\ reseen' = IF f \in seen THEN reseen \cup {f} ELSE reseen
                   /\ IF f \notin seen /\ Eligible(ctime[f], segment_time, now)
                         THEN /\ seen' = SeenAdd(seen, f)
                              /\ IF has_speech(f)
                                    THEN /\ file_queue' = Append(file_queue, f)
                                         /\ enq_count' = [enq_count EXCEPT ![f] = @ + 1]
                                         /\ fresh' = fresh \cup {f}
                                         /\ on_disk' = on_disk
                                    ELSE \* remove_file(wav_file)
                                         /\ on_disk' = IF do_remove THEN on_disk \ {f}
                                                                    ELSE on_disk
                                         /\ UNCHANGED <<file_queue, enq_count, fresh>>
                         ELSE UNCHANGED <<seen, file_queue, enq_count, fresh, on_disk>>
    /\ UNCHANGED <<liveVars, extVars, now, confVars, recVars, running, workVars, stopVars, hist>>

\* `time.sleep(1)` after the pass
ScanSleep ==
    /\ spc = "for"
    /\ listing = <<>>
    /\ spc' = "sleep"
    /\ hist' = IF running THEN hist
                          ELSE [hist EXCEPT !.polls[Scanner] = @ + 1]
    /\ UNCHANGED <<liveVars, extVars, now, confVars, recVars, on_disk, running, listing, seen,
                   enq_count, fresh, reseen, file_queue, workVars, stopVars>>

ScanWake ==
    /\ spc = "sleep"
    /\ spc' = "while"
    /\ UNCHANGED <<liveVars, extVars, now, confVars, recVars, on_disk, running, listing, seen,
                   enq_count, fresh, reseen, file_queue, workVars,
                   stopVars, hist>>

\* ---- _model_worker

\* `while self.running:`
WorkerWhile(w) ==
    /\ wpc[w] = "while"
    /\ wpc' = [wpc EXCEPT ![w] = WorkerLoopTest(running)]
    /\ UNCHANGED <<liveVars, extVars, now, confVars, recVars, on_disk, running, scanVars,
                   file_queue, wfile, attempts, transcript, failed, stopVars, hist>>

\* the handler of the try block, entered with `wav_file` still bound
WorkerRaise(w, f) ==
    /\ wpc' = [wpc EXCEPT ![w] = WorkerOnException]
    /\ failed' = failed \cup {f}
    /\ attempts' = attempts

\* a get that returns the head item and leaves it in the queue
PeekOnly(q) == q

\* the queue after `self.file_queue.get(timeout=1)` returned its head item:
\* queue.Queue takes the item out under the queue's own mutex
Dequeue(q) == Tail(q)

\* `wav_file = self.file_queue.get(timeout=1)` returns an item; in the try
\* block `os.path.getsize(wav_file)` raises on a missing file, else the
\* recognition call begins
WorkerGet(w) ==
    /\ wpc[w] = "get"
    /\ file_queue # <<>>
    /\ wfile' = [wfile EXCEPT ![w] = Head(file_queue)]
    /\ file_queue' = Dequeue(file_queue)
    /\ IF Head(file_queue) \in on_disk
          THEN /\ wpc' = [wpc EXCEPT ![w] = "transcribe"]
               /\ hist' = IF running THEN hist
                                     ELSE [hist EXCEPT !.gets[w] = @ + 1,
                                                       !.recogs[w] = @ + 1]
               /\ UNCHANGED <<attempts, failed>>
          ELSE /\ WorkerRaise(w, Head(file_queue))
               /\ hist' = IF running THEN hist
                                     ELSE [hist EXCEPT !.gets[w] = @ + 1]
    /\ UNCHANGED <<liveVars, extVars, now, confVars, recVars, on_disk, running, scanVars,
                   transcript, stopVars>>

\* the get times out after one second: `except Empty: continue`
WorkerEmpty(w) ==
    /\ wpc[w] = "get"
    /\ file_queue = <<>>
    /\ wpc' = [wpc EXCEPT ![w] = "while"]
    /\ hist' = IF running THEN hist ELSE [hist EXCEPT !.polls[w] = @ + 1]
    /\ UNCHANGED <<liveVars, extVars, now, confVars, recVars, on_disk, running, scanVars,
                   file_queue, wfile, attempts, transcript, failed, stopVars>>

\* `result = self.models[model_idx].transcribe(str(wav_file))` returns, or
\* raises on a file the engine cannot decode
WorkerTranscribe(w) ==
    /\ wpc[w] = "transcribe"
    /\ \/ /\ wpc' = [wpc EXCEPT ![w] = "write"]
          /\ UNCHANGED <<wfile, attempts, failed>>
       \/ /\ WorkerRaise(w, wfile[w])
          /\ wfile' = wfile
    /\ UNCHANGED <<liveVars, extVars, now, confVars, recVars, on_disk, running, scanVars,
                   file_queue, transcript, stopVars, hist>>

\* `with open(self.out_file, "a") as f: f.write(...)`, task_done(), and
\* remove_file's `if self.do_remove:`; open or write may raise. The append
\* is one step here, its positioning and its write not separated by another
\* worker's (WorkerSeek and WorkerFlush follow it in two steps)
WorkerWrite(w) ==
    /\ wpc[w] = "write"
    /\ \/ /\ transcript' = AppendLine(transcript, wfile[w])
          /\ wpc' = [wpc EXCEPT ![w] = IF do_remove THEN "remove" ELSE "while"]
          /\ attempts' = [attempts EXCEPT ![w] = 0]
          /\ UNCHANGED <<wfile, failed>>
       \/ /\ WorkerRaise(w, wfile[w])
          /\ wfile' = wfile
          /\ transcript' = transcript
    /\ UNCHANGED <<liveVars, extVars, now, confVars, recVars, on_disk, running, scanVars,
                   file_queue, stopVars, hist>>

\* ---- the append to transcript.txt, below the line level

\* the length of the line written for file f, in units of text: the lines
\* of different files differ in length
LineUnits(f) == f

\* f"{ctime} {result['text']}\n" for file f
LineOf(f) == [k \in 1..LineUnits(f) |-> <<f, k>>]

\* the file after `line` was written at offset pos: the bytes there are
\* overwritten, the file grows when the write ends beyond its end
WriteAt(bytes, pos, line) ==
    [i \in 1..Max(Len(bytes), pos + Len(line)) |->
        IF i > pos /\ i <= pos + Len(line) THEN line[i - pos] ELSE bytes[i]]

\* transcript.txt is empty and no worker has a write pending
InitAppend ==
    /\ tbytes = <<>>
    /\ wpos = [w \in UNION {1..n : n \in ModelCounts} |-> 0]

\* the append of WorkerWrite step by step. Each worker has its own file
\* object; f.write() leaves the line in the object's buffer, and leaving the
\* `with` block flushes it in one write call. In append mode that call
\* first moves the file position to the end of the file (this step), then
\* writes the data there (WorkerFlush); the code holds no lock over the two.
\* open() may raise
WorkerSeek(w) ==
    /\ wpc[w] = "write"
    /\ \/ /\ wpos' = [wpos EXCEPT ![w] = Len(tbytes)]
          /\ wpc' = [wpc EXCEPT ![w] = "flush"]
          /\ UNCHANGED <<wfile, attempts, failed>>
       \/ /\ WorkerRaise(w, wfile[w])
          /\ wfile' = wfile
          /\ wpos' = wpos
    /\ UNCHANGED <<liveVars, loopVars, latestVars, gateVars, tbytes,
                   now, confVars, recVars, on_disk, running, scanVars,
                   file_queue, transcript, stopVars, hist>>

\* the line is written at the position of WorkerSeek; then task_done() and
\* remove_file's `if self.do_remove:`. `transcript` records the write calls
\* in the order they were made, tbytes what the file holds after them
WorkerFlush(w) ==
    /\ wpc[w] = "flush"
    /\ tbytes' = WriteAt(tbytes, wpos[w], LineOf(wfile[w]))
    /\ transcript' = AppendLine(transcript, wfile[w])
    /\ wpc' = [wpc EXCEPT ![w] = IF do_remove THEN "remove" ELSE "while"]
    /\ attempts' = [attempts EXCEPT ![w] = 0]
    /\ UNCHANGED <<liveVars, loopVars, latestVars, gateVars, wpos,
                   now, confVars, recVars, on_disk, running, scanVars,
                   file_queue, wfile, failed, stopVars, hist>>

\* one turn of remove_file's `for _ in range(10)`: os.remove succeeds, or
\* raises PermissionError (logged, sleep 0.5), or raises another OSError,
\* which the worker's handler catches
WorkerRemove(w) ==
    /\ wpc[w] = "remove"
    /\ IF wfile[w] \notin on_disk
          THEN /\ WorkerRaise(w, wfile[w])
               /\ wfile' = wfile
               /\ on_disk' = on_disk
          ELSE \/ /\ on_disk' = on_disk \ {wfile[w]}
                  /\ wpc' = [wpc EXCEPT ![w] = "while"]
                  /\ UNCHANGED <<wfile, attempts, failed>>
               \/ /\ on_disk' = on_disk
                  /\ attempts' = [attempts EXCEPT ![w] = @ + 1]
                  /\ wpc' = [wpc EXCEPT ![w] =
                                 IF RemoveLoopEnds(attempts[w] + 1) THEN "while"
                                                                    ELSE "remove"]
                  /\ UNCHANGED <<wfile, failed>>
    /\ UNCHANGED <<liveVars, extVars, now, confVars, recVars, running, scanVars,
                   file_queue, transcript, stopVars, hist>>

\* ---- stop()

\* `self.running = False`
StopRequest ==
    /\ stop_pc = "idle"
    /\ running' = FALSE
    /\ stop_pc' = "join"
    /\ hist' = [hist EXCEPT
                  !.at_stop = [w \in Workers |->
                                  IF wpc[w] \in {"get", "transcribe"}
                                     THEN wpc[w] ELSE "other"]]
    /\ UNCHANGED <<liveVars, extVars, now, confVars, recVars, on_disk, scanVars,
                   file_queue, workVars>>

\* the joins `t.join(timeout=timeout)` have returned, each because its thread
\* ended or its five seconds were over; then
\* `if any(...) or self.scanner_thread.is_alive(): raise RuntimeError(...)`
StopCheck ==
    /\ stop_pc = "join"
    /\ stop_pc' = IF AnyAlive THEN "raised" ELSE "returned"
    /\ hist' = [hist EXCEPT !.alive_at_check = AliveThreads]
    /\ UNCHANGED <<liveVars, extVars, now, confVars, recVars, on_disk, running, scanVars,
                   file_queue, workVars>>

\* ============================== the response gate of TwitchWatcher (main.py)

\* the values of response_interval the gate is run with
ResponseIntervals == {Sec(1), Sec(2)}

\* the model follows the clock long enough for two responses
GateHorizon == 4 * response_interval

\* a watcher whose first interval starts at its construction
ConstructedAt(t0, r) == t0

\* `self.last_response = time.time() + response_interval` in __init__
FirstLastResponse(t0, r) == t0 + r

\* the state after TwitchWatcher(channel, response_interval=r, words_file=...)
\* built at time 0: `self.on_work_response = words_file is not None`,
\* `self.last_response = time.time() + response_interval`; __init__ gives the
\* object no word_flagged attribute
InitGate(r, flagging) ==
    /\ response_interval = r
    /\ on_work_response = flagging
    /\ word_flagged = "unset"
    /\ last_response = FirstLastResponse(0, r)
    /\ gpc = "idle"
    /\ sr_result = "none"
    /\ sr_in = [at |-> 0, last |-> 0, matched |-> FALSE]
    /\ flag_matched = FALSE
    /\ responses = <<>>

\* should_respond() called at time t: "true", "false", or "raised" when the
\* second test reads the attribute word_flagged and the object has none
should_respond(t) ==
    IF last_response + response_interval < t
       THEN "true"
       ELSE IF on_work_response
               THEN (IF word_flagged = "unset" THEN "raised"
                     ELSE IF word_flagged THEN "true" ELSE "false")
               ELSE "false"

KeepsLastResponse(old, t) == old

\* `self.last_response = time.time()`
MarkResponded(old, t) == t

\* time passes while the watcher sleeps, polls the stream or awaits the API
GateTick ==
    /\ now < GateHorizon
    /\ gpc # "raised"
    /\ now' = now + 1
    /\ UNCHANGED <<liveVars, loopVars, latestVars, appendVars, confVars, recVars, on_disk, running,
                   scanVars, file_queue, workVars, stopVars, hist,
                   response_interval, on_work_response, word_flagged,
                   last_response, gpc, sr_result, sr_in, flag_matched, responses>>

\* the recognized text contains one of the flag words; no statement of the
\* program assigns word_flagged
FlagWordHeard ==
    /\ ~flag_matched
    /\ gpc # "raised"
    /\ flag_matched' = TRUE
    /\ word_flagged' = word_flagged
    /\ UNCHANGED <<liveVars, batchVars, loopVars, latestVars, appendVars,
                   response_interval, on_work_response,
                   last_response, gpc, sr_result, sr_in, responses>>

\* generate_response() is called by start(): `if not self.should_respond():
\* return`; an exception of should_respond leaves generate_response and start
GenerateCall ==
    /\ gpc = "idle"
    /\ sr_result' = should_respond(now)
    /\ sr_in' = [at |-> now, last |-> last_response, matched |-> flag_matched]
    /\ gpc' = CASE should_respond(now) = "true" -> "generating"
                [] should_respond(now) = "false" -> "idle"
                [] OTHER -> "raised"
    /\ UNCHANGED <<liveVars, batchVars, loopVars, latestVars, appendVars,
                   response_interval, on_work_response, word_flagged,
                   last_response, flag_matched, responses>>

\* the transcript is read, the chat completion requested, the message sent
\* and logged; then `self.last_response = time.time()`
GenerateComplete ==
    /\ gpc = "generating"
    /\ last_response' = MarkResponded(last_response, now)
    /\ responses' = Append(responses, now)
    /\ gpc' = "idle"
    /\ UNCHANGED <<liveVars, batchVars, loopVars, latestVars, appendVars,
                   response_interval, on_work_response, word_flagged,
                   sr_result, sr_in, flag_matched>>

\* the transcript read, the API call or the log write raises: the exception
\* leaves generate_response before last_response is assigned
GenerateRaise ==
    /\ gpc = "generating"
    /\ gpc' = "raised"
    /\ UNCHANGED <<liveVars, batchVars, loopVars, latestVars, appendVars,
                   response_interval, on_work_response, word_flagged,
                   last_response, sr_result, sr_in, flag_matched, responses>>

\* ------------------------------------------------------------ specifications

\* the parts a specification does not follow, as constructed and not started
InitExt ==
    /\ InitLoop(FALSE)
    /\ InitLatest({[exists |-> FALSE, lines |-> <<>>]})
    /\ InitGate(Sec(1), FALSE)
    /\ InitAppend

\* live mode alone: the reader thread and a caller of read_audio
NextLive ==
    \/ ReaderWhile
    \/ ReaderRead
    \/ ReaderPoll
    \/ ReaderPut
    \/ ReaderDrop
    \/ ReaderReput
    \/ ProcExit
    \/ AudioStop
    \/ ReadAudioCall
    \/ ReadAudioGet
    \/ ReadAudioReturn

InitLiveSpec ==
    /\ InitLive
    /\ InitBatch(WatcherSegmentTime, 1, FALSE, MaxFiles, FALSE)
    /\ InitExt

SpecLive == InitLiveSpec /\ [][NextLive]_vars

\* the capture subprocess and the scanner thread, with the ten-second
\* segments TwitchWatcher asks for and nothing taking from the queue
NextScan ==
    \/ Tick
    \/ NextSegment
    \/ WriterStall
    \/ ScanWhile
    \/ ScanFile
    \/ ScanSleep
    \/ ScanWake

InitScan ==
    /\ InitLive
    /\ InitBatch(WatcherSegmentTime, 0, FALSE, MaxFiles, FALSE)
    /\ InitExt

SpecScan == InitScan /\ [][NextScan]_vars

\* the whole transcriber on one-second segments: the scanner, one or two
\* workers, deletion off (the default), and a caller of stop()
\* TwitchWatcher.start finds the stream online again after its stop()
\* returned: `self.transcriber = TwitchTranscriber(audio_dir=audio_dir, ...)`
\* on the same directory, then `self.transcriber.start()`. The new object has
\* its own running flag and Queue(), its scanner thread starts _scanner_loop
\* from `seen = set()`; transcript.txt and the files on disk are as they were
WatcherRestart ==
    /\ stop_pc = "returned"
    /\ stop_pc' = "restarted"
    /\ running' = TRUE
    /\ file_queue' = <<>>
    /\ spc' = "while"
    /\ listing' = <<>>
    /\ seen' = {}
    /\ wpc' = [w \in Workers |-> "while"]
    /\ wfile' = [w \in Workers |-> 0]
    /\ attempts' = [w \in Workers |-> 0]
    /\ UNCHANGED <<liveVars, extVars, now, confVars, recVars, on_disk,
                   enq_count, fresh, reseen, transcript, failed, hist>>

NextPipe ==
    \/ ScanWhile
    \/ ScanFile
    \/ ScanSleep
    \/ ScanWake
    \/ \E w \in Workers : WorkerWhile(w)
    \/ \E w \in Workers : WorkerGet(w)
    \/ \E w \in Workers : WorkerEmpty(w)
    \/ \E w \in Workers : WorkerTranscribe(w)
    \/ \E w \in Workers : WorkerWrite(w)
    \/ StopRequest
    \/ StopCheck

InitPipe ==
    /\ InitLive
    /\ \E n \in ModelCounts : InitBatch(Sec(1), n, FALSE, PipeFiles, TRUE)
    /\ InitExt

SpecPipe == InitPipe /\ [][NextPipe]_vars

\* the watcher's offline-then-online cycle: one worker (start passes no
\* n_models), deletion off, the recorded files retained on disk; the
\* transcriber is stopped and a second one is created on the same directory
NextRestart ==
    \/ ScanWhile
    \/ ScanFile
    \/ ScanSleep
    \/ ScanWake
    \/ \E w \in Workers : WorkerWhile(w)
    \/ \E w \in Workers : WorkerGet(w)
    \/ \E w \in Workers : WorkerEmpty(w)
    \/ \E w \in Workers : WorkerTranscribe(w)
    \/ \E w \in Workers : WorkerWrite(w)
    \/ StopRequest
    \/ StopCheck
    \/ WatcherRestart

InitRestart ==
    /\ InitLive
    /\ InitBatch(WatcherSegmentTime, 1, FALSE, PipeFiles, TRUE)
    /\ InitExt

SpecRestart == InitRestart /\ [][NextRestart]_vars

\* the recorder, the clock, the scanner and one worker together, deletion on
\* or off, nobody calling stop(): files appear one per segment_time, age,
\* are enqueued, transcribed and, with deletion on, removed
NextFlow ==
    \/ Tick
    \/ NextSegment
    \/ ScanWhile
    \/ ScanFile
    \/ ScanSleep
    \/ ScanWake
    \/ \E w \in Workers : WorkerWhile(w)
    \/ \E w \in Workers : WorkerGet(w)
    \/ \E w \in Workers : WorkerEmpty(w)
    \/ \E w \in Workers : WorkerTranscribe(w)
    \/ \E w \in Workers : WorkerWrite(w)
    \/ \E w \in Workers : WorkerRemove(w)

InitFlow ==
    /\ InitLive
    /\ \E rm \in BOOLEAN : InitBatch(Sec(1), 1, rm, PipeFiles, FALSE)
    /\ InitExt

\* time passes and the muxer runs; the scanner thread and the worker thread
\* are each scheduled again and again, and every call they make returns
FlowThreads ==
    /\ WF_vars(Tick \/ NextSegment)
    /\ WF_vars(ScanWhile \/ ScanFile \/ ScanSleep \/ ScanWake)
    /\ WF_vars(\E w \in Workers :
                  \/ WorkerWhile(w) \/ WorkerGet(w) \/ WorkerEmpty(w)
                  \/ WorkerTranscribe(w) \/ WorkerWrite(w) \/ WorkerRemove(w))

SpecFlowFair == InitFlow /\ [][NextFlow]_vars /\ FlowThreads

\* two workers and the scanner, the append to transcript.txt followed step
\* by step
NextAppend ==
    \/ ScanWhile
    \/ ScanFile
    \/ ScanSleep
    \/ ScanWake
    \/ \E w \in Workers : WorkerWhile(w)
    \/ \E w \in Workers : WorkerGet(w)
    \/ \E w \in Workers : WorkerEmpty(w)
    \/ \E w \in Workers : WorkerTranscribe(w)
    \/ \E w \in Workers : WorkerSeek(w)
    \/ \E w \in Workers : WorkerFlush(w)

InitAppendSpec ==
    /\ InitLive
    /\ InitBatch(Sec(1), 2, FALSE, PipeFiles, TRUE)
    /\ InitExt

SpecAppend == InitAppendSpec /\ [][NextAppend]_vars

\* one worker with deletion on or off: the pipeline of SpecPipe with
\* remove_file's retry loop followed turn by turn
NextRemove ==
    \/ ScanWhile
    \/ ScanFile
    \/ ScanSleep
    \/ ScanWake
    \/ \E w \in Workers : WorkerWhile(w)
    \/ \E w \in Workers : WorkerGet(w)
    \/ \E w \in Workers : WorkerEmpty(w)
    \/ \E w \in Workers : WorkerTranscribe(w)
    \/ \E w \in Workers : WorkerWrite(w)
    \/ \E w \in Workers : WorkerRemove(w)
    \/ StopRequest
    \/ StopCheck

InitRemove ==
    /\ InitLive
    /\ \E rm \in BOOLEAN : InitBatch(Sec(1), 1, rm, PipeFiles, TRUE)
    /\ InitExt

SpecRemove == InitRemove /\ [][NextRemove]_vars

\* the live transcriber on the audio feed: the reader thread, the _loop
\* thread as the one caller of read_audio, and callers of the two stop()
NextLoop ==
    \/ ReaderWhile
    \/ ReaderRead
    \/ ReaderPoll
    \/ ReaderPut
    \/ ReaderDrop
    \/ ReaderReput
    \/ ProcExit
    \/ AudioStop
    \/ LoopWhile
    \/ LoopCall
    \/ ReadAudioGet
    \/ ReadAudioReturn
    \/ LoopSplice
    \/ LoopTranscribe
    \/ LoopSleep
    \/ LoopStop

InitLoopSpec ==
    /\ InitLive
    /\ InitBatch(WatcherSegmentTime, 1, FALSE, MaxFiles, FALSE)
    /\ InitLoop(TRUE)
    /\ InitLatest({[exists |-> FALSE, lines |-> <<>>]})
    /\ InitGate(Sec(1), FALSE)
    /\ InitAppend

SpecLoop == InitLoopSpec /\ [][NextLoop]_vars

\* the same with every thread scheduled again and again: a thread that can
\* take its next step takes it; nobody is bound to call a stop() and the
\* subprocess is not bound to exit
LoopThreads ==
    /\ WF_vars(ReaderWhile \/ ReaderRead \/ ReaderPoll \/ ReaderPut
                  \/ ReaderDrop \/ ReaderReput)
    /\ WF_vars(LoopWhile \/ LoopCall \/ ReadAudioGet \/ ReadAudioReturn
                  \/ LoopSplice \/ LoopTranscribe \/ LoopSleep)

SpecLoopFair == InitLoopSpec /\ [][NextLoop]_vars /\ LoopThreads

\* get_latest_transcription on every transcript file of up to MaxLines lines
NextLatest == LatestCall

InitLatestSpec ==
    /\ InitLive
    /\ InitBatch(WatcherSegmentTime, 1, FALSE, MaxFiles, FALSE)
    /\ InitLoop(FALSE)
    /\ InitLatest(OutFiles)
    /\ InitGate(Sec(1), FALSE)
    /\ InitAppend

SpecLatest == InitLatestSpec /\ [][NextLatest]_vars

\* the response gate: the clock, the caller of generate_response and the
\* recognized text
NextGate ==
    \/ GateTick
    \/ FlagWordHeard
    \/ GenerateCall
    \/ GenerateComplete
    \/ GenerateRaise

InitGateSpec ==
    /\ InitLive
    /\ InitBatch(WatcherSegmentTime, 1, FALSE, MaxFiles, FALSE)
    /\ InitLoop(FALSE)
    /\ InitLatest({[exists |-> FALSE, lines |-> <<>>]})
    /\ \E r \in ResponseIntervals, flagging \in BOOLEAN : InitGate(r, flagging)
    /\ InitAppend

SpecGate == InitGateSpec /\ [][NextGate]_vars

\* ------------------------------------------------------------ live claims

\* C1: after more than 10 pushes by the reader with nothing consumed in
\* between, the queue holds exactly the 10 most recently pushed chunks in
\* arrival order (once the push is complete); the queue never holds more
\* than 10 chunks.
C1_KeepsLatestTen ==
    /\ Len(buffer_queue) <= QueueMaxSize
    /\ (consumed = 0 /\ rpc # "reput")
          => buffer_queue = Interval(Max(1, pushed - QueueMaxSize + 1), pushed)

C1_Witness ==
    /\ consumed = 0
    /\ rpc = "while"
    /\ pushed = 12
    /\ buffer_queue = <<3, 4, 5, 6, 7, 8, 9, 10, 11, 12>>

\* C2: while running is true and the subprocess is alive, the reader thread
\* is never ended by its own overflow handling.
C2_ReaderNeverStoppedByOverflow ==
    (audio_running /\ proc_alive) => rpc # "dead"

\* ----------------------------------------------------------- batch claims

\* C3: the scanner puts a segment file on the work queue at most once,
\* however many poll cycles list it.
C3_EnqueuedAtMostOnce ==
    \A f \in DOMAIN enq_count : enq_count[f] <= 1

\* file 1 was put once and a later poll cycle has listed and tested it again
C3_Witness ==
    /\ 1 \in reseen
    /\ enq_count[1] = 1
    /\ 2 \in fresh

\* C4: a file the scanner puts on the queue is older than segment_time plus
\* the grace of two seconds, strictly: at age segment_time + grace or less it
\* is never put.
C4_NeverEnqueuedYoung ==
    \A f \in fresh : now - ctime[f] > segment_time + Grace

\* file 1 is put half a second past the threshold, the first moment it can be
C4_Witness ==
    /\ fresh = {1}
    /\ now - ctime[1] = segment_time + Grace + 1

\* the scanner tests file f in this step / puts it on the queue in this step
ScanTests(f) ==
    /\ spc = "for"
    /\ listing # <<>>
    /\ Head(listing) = f
    /\ listing' = Tail(listing)

ScanPuts(f) == enq_count'[f] = enq_count[f] + 1

\* the instants t = 31.5 s and t = 41.5 s of the scenario
T31_5 == Sec(31) + 1

T41_5 == Sec(41) + 1

\* C5 (as amended): with files created at t = 0, 10 and 20, segment_time = 10
\* and the grace of 2 s, a test at t = 31.5 puts a file exactly when it is
\* file 1 or 2 and not yet seen (file 3 is 11.5 s old: not eligible); a test
\* at t = 41.5 puts a file exactly when it is file 1, 2 or 3 and not yet seen.
C5_ScenarioAmended ==
    [][\A f \in 1..stream_len :
          ScanTests(f) =>
             /\ now = T31_5 => (ScanPuts(f) <=> (f \in {1, 2} /\ f \notin seen))
             /\ now = T41_5 => (ScanPuts(f) <=> (f \in {1, 2, 3} /\ f \notin seen))
      ]_vars

\* at t = 41.5 file 3 is the one newly put, files 1 and 2 being seen already
C5_Witness ==
    /\ now = T41_5
    /\ ctime[1] = 0 /\ ctime[2] = Sec(10) /\ ctime[3] = Sec(20)
    /\ fresh = {3}
    /\ {1, 2} \subseteq reseen
    /\ enq_count[1] = 1 /\ enq_count[2] = 1 /\ enq_count[3] = 1

\* C5 (as stated): at t = 31.5 only file 1 is eligible; at t = 41.5 files 1
\* and 2 are, and of them only the unseen one is put.
C5_ScenarioAsStated ==
    [][\A f \in 1..stream_len :
          ScanTests(f) =>
             /\ now = T31_5 => (ScanPuts(f) <=> (f \in {1} /\ f \notin seen))
             /\ now = T41_5 => (ScanPuts(f) <=> (f \in {1, 2} /\ f \notin seen))
      ]_vars

\* C6: a segment file whose writer has stalled before finishing it is never
\* put on the queue by the scanner.
C6_UnfinishedNeverEnqueued ==
    stalled => \A f \in DOMAIN enq_count : enq_count[f] > 0 => f \in finalized

\* C7: when processing an item raises in a worker, no transcript line is
\* appended for that item and no thread is ended by it: the worker is back
\* at the head of its loop.
C7_FailureIsolated ==
    /\ failed \cap Range(transcript) = {}
    /\ \A w \in Workers : wpc[w] # "dead"
    /\ spc # "dead"

\* the single worker failed on file 1 and then transcribed file 2
C7_Witness ==
    /\ n_models = 1
    /\ failed = {1}
    /\ transcript = <<2>>
    /\ running

\* C8: after running is set to false every thread that is not inside a
\* recognition call leaves its loop within one poll interval, whatever the
\* queue holds: it waits at most once more and starts no recognition call.
C8_ExitWithinOnePoll ==
    ~running =>
        /\ hist.polls[Scanner] <= 1
        /\ \A w \in Workers :
              hist.at_stop[w] # "transcribe" =>
                 /\ hist.polls[w] <= 1
                 /\ hist.recogs[w] = 0

\* C9: once stop is requested no worker takes an item from the queue, and a
\* recognition call in flight at the request still has its line appended
\* (unless the call or the write raises).
C9_NoDequeueAfterStop ==
    ~running =>
        \A w \in Workers :
           /\ hist.gets[w] = 0
           /\ (hist.at_stop[w] = "transcribe" /\ wpc[w] \in {"while", "done"})
                 => wfile[w] \in Range(transcript) \cup failed

\* what the shutdown does guarantee: the scanner starts no new pass and
\* sleeps at most once more; a worker spends at most one more queue wait or
\* one more item, the item only when it was waiting in get as the flag was
\* cleared, and never waits in get again; a recognition call in flight at the
\* request runs to its end
ShutdownOneRound ==
    ~running =>
        /\ hist.polls[Scanner] <= 1
        /\ (spc = "for" => hist.polls[Scanner] = 0)
        /\ \A w \in Workers :
              /\ hist.polls[w] + hist.gets[w] <= 1
              /\ hist.recogs[w] <= hist.gets[w]
              /\ hist.gets[w] = 1 => hist.at_stop[w] = "get"
              /\ hist.polls[w] = 1 => hist.at_stop[w] = "get"
              /\ wpc[w] = "get" => hist.polls[w] + hist.gets[w] = 0
              /\ (hist.at_stop[w] = "transcribe" /\ wpc[w] \in {"while", "done"})
                    => wfile[w] \in Range(transcript) \cup failed

\* both workers were waiting in get at the request: one took an item and ran
\* a recognition call, the other timed out; the scanner slept once; all left
ShutdownOneRoundReached ==
    /\ ~running
    /\ n_models = 2
    /\ hist.recogs[1] = 1
    /\ hist.polls[2] = 1
    /\ hist.polls[Scanner] = 1
    /\ AliveThreads = {}

\* C10: stop() raises exactly when a worker thread or the scanner thread is
\* still alive at its check after the joins; when all have ended it returns.
C10_StopRaisesIffAlive ==
    /\ stop_pc = "raised" => hist.alive_at_check # {}
    /\ stop_pc = "returned" => (hist.alive_at_check = {} /\ AliveThreads = {})

\* stop() raised although every worker had ended: the scanner was alive
C10_Witness ==
    /\ stop_pc = "raised"
    /\ hist.alive_at_check = {Scanner}

\* ------------------------------------- gate, deletion and live-loop claims

\* the call should_respond() had the interval behind it / a flag word to go by
IntervalElapsed == sr_in.at - sr_in.last > response_interval

FlagTriggered == on_work_response /\ sr_in.matched

\* C11: should_respond() returns true exactly when now - last_response_time
\* exceeds response_interval (false at equality), or when flag-word
\* triggering is enabled and a flag word was matched; else it returns false.
C11_ShouldRespondExact ==
    sr_result # "none" =>
        sr_result = IF IntervalElapsed \/ FlagTriggered THEN "true" ELSE "false"

\* C12: every completed response sets last_response to the time it completed,
\* a call of should_respond() before more than response_interval has gone by
\* since then does not return true, and so two completed responses are more
\* than response_interval apart (flag-word triggering off).
C12_ResponsesApart ==
    ~on_work_response =>
        /\ \A i \in 1..(Len(responses) - 1) :
              responses[i + 1] - responses[i] > response_interval
        /\ responses # <<>> => last_response = responses[Len(responses)]
        /\ sr_result = "true" => sr_in.at > sr_in.last + response_interval
        /\ gpc = "generating" => now > last_response + response_interval

\* two responses have completed, and a call in between returned false
C12_Witness ==
    /\ ~on_work_response
    /\ Len(responses) = 2
    /\ sr_result = "false"
    /\ sr_in.at > responses[2]

\* s is t or the beginning of t
IsPrefix(s, t) == Len(s) <= Len(t) /\ SubSeq(t, 1, Len(s)) = s

C14_ChronologicalSingleWorker ==
    n_models = 1 =>
        \A i, j \in 1..Len(transcript) : i < j => transcript[i] < transcript[j]

\* C15: remove_file makes at most ten attempts and stops at the first that
\* succeeds; a file is left on disk exactly when ten attempts in a row met a
\* locking error, and then no exception leaves remove_file (no file with a
\* transcript line is reported as failed); with deletion off no attempt is
\* made and no file disappears.
C15_RemoveRetries ==
    \A w \in Workers :
       /\ attempts[w] <= RemoveTries
       /\ wpc[w] = "remove" => (do_remove /\ wfile[w] \in on_disk
                                          /\ attempts[w] < RemoveTries)
       /\ (do_remove /\ wfile[w] \in Range(transcript) /\ wpc[w] # "remove")
             => (wfile[w] \in on_disk <=> attempts[w] = RemoveTries)
       /\ failed \cap Range(transcript) = {}
       /\ ~do_remove => (attempts[w] = 0 /\ on_disk = 1..stream_len)

\* file 1 was removed by the tenth attempt, after nine locking errors
C15_Witness ==
    /\ do_remove
    /\ wfile[1] = 1
    /\ wpc[1] = "while"
    /\ attempts[1] = RemoveTries - 1
    /\ 1 \notin on_disk
    /\ 1 \in Range(transcript)

\* file 1 was left on disk after ten locking errors and the worker went on
RemoveGivenUp ==
    /\ do_remove
    /\ transcript = <<1, 2>>
    /\ 1 \in on_disk

\* the reader thread has ended because the subprocess exited or returned no
\* bytes, and a read_audio call entered after that has returned
LateCallReturned ==
    /\ rexit \in {"process exited", "zero bytes"}
    /\ acall \in {"late", "late_empty"}
    /\ apc = "idle"

\* C16 (as stated): after the reader thread has ended because the subprocess
\* exited or returned no bytes, every later read_audio call returns empty.
C16_EmptyAfterReaderEnd == LateCallReturned => audio_len = 0

\* C16 (as amended): after the reader thread has ended so, a read_audio call
\* returns the chunks still in the queue, and returns empty when it is
\* entered with the queue empty, as every call is once the queue is drained.
C16_EmptyOnceDrained ==
    /\ LateCallReturned => (audio_len = 0 <=> acall = "late_empty")
    /\ (ReaderEnded /\ acall = "late_empty") => buffer_queue = <<>>

\* chunks were captured, the subprocess returned no bytes, and a call entered
\* after the queue was drained returned empty
C16_Witness ==
    /\ rexit = "zero bytes"
    /\ acall = "late_empty"
    /\ apc = "idle"
    /\ audio_len = 0
    /\ consumed = MaxChunks

\* C17: once the stream has ended by itself and the queue is drained, the
\* _loop thread stops calling read_audio without anybody calling a stop():
\* it leaves its loop.
C17_LoopStopsAfterStreamEnd ==
    (/\ rexit \in {"process exited", "zero bytes"}
     /\ audio_running
     /\ buffer_queue = <<>>
     /\ loop_running)
        ~> (lpc \in {"done", "dead"} \/ ~loop_running \/ ~audio_running)

\* the segment files that hold no speech
SilentFiles == {2}

C19_WindowLengthConstant == Len(buffer) = WindowSec

\* a full read of three seconds and then a short read of one second have
\* been spliced into the window
C19_Witness ==
    /\ lpc = "transcribe"
    /\ audio_len = 1
    /\ buffer = <<0, 0, 1, 1, 1, 1>>

\* C20 (as stated): get_latest_transcription(n) returns the last n lines of
\* the transcript (all of them when n = 0 or there are fewer than n), and an
\* empty result for an empty or a missing file.
C20_LatestLinesAsStated ==
    latest_n >= 0 =>
        latest = IF out_file.exists THEN LastN(out_file.lines, latest_n) ELSE <<>>

\* C20 (as amended): get_latest_transcription(n) returns, for each of the
\* last n lines (all of them when n = 0 or there are fewer than n), the text
\* after the last double space of the line, the whole line when it has
\* none; and an empty result for an empty or a missing file.
C20_LatestTexts ==
    latest_n >= 0 =>
        /\ Len(latest) = IF ~out_file.exists THEN 0
                         ELSE IF latest_n = 0 \/ latest_n > Len(out_file.lines)
                                 THEN Len(out_file.lines)
                                 ELSE latest_n
        /\ \A i \in 1..Len(latest) :
              LET line == out_file.lines[Len(out_file.lines) - Len(latest) + i]
              IN  latest[i] = <<line[Len(line)]>>

\* two of three lines are asked for; the last has a double space in it
C20_Witness ==
    /\ latest_n = 2
    /\ out_file.lines = <<<<1>>, <<2>>, <<1, 2>>>>
    /\ latest = <<<<2>>, <<2>>>>

\* ---- concurrency, restart and first-response claims

\* C26 (as stated): the overflow handler discards a chunk only when the
\* queue holds QueueMaxSize chunks at the moment of the discard; no chunk is
\* discarded while the queue has free capacity.
C26_EvictsOnlyWhenFull ==
    \A i \in 1..Len(evicted) : evicted[i].qlen = QueueMaxSize

\* C27: for a watcher constructed at time 0 with flag-word triggering off,
\* until the first response completes should_respond() returns false at
\* every time up to and including 2 * response_interval and true at every
\* later time.
C27_FirstResponseAfterTwoIntervals ==
    (~on_work_response /\ responses = <<>> /\ sr_result # "none") =>
        sr_result = IF sr_in.at > 2 * response_interval THEN "true" ELSE "false"

\* the first call that returns true comes one tick after two intervals, a
\* tick being the finest time step
C27_Witness ==
    /\ ~on_work_response
    /\ responses = <<>>
    /\ sr_result = "true"
    /\ sr_in.at = 2 * response_interval + 1
    /\ sr_in.last = response_interval

\* C24 (as stated): with deletion enabled, a worker removing a processed
\* file during the scanner's directory pass never stops the scanner: the
\* scanner thread is alive for as long as running is true.
C24_ScannerSurvivesRemoval ==
    (do_remove /\ running) => spc # "dead"

\* the number of places file f is at: queued, held by a worker between its
\* get and the end of its try block, written as a line, or skipped
Occurrences(q, f) == Cardinality({i \in 1..Len(q) : q[i] = f})

Holders(f) == {w \in Workers : wfile[w] = f /\ wpc[w] \in {"transcribe", "write"}}

\* C22: with several workers on one queue, every enqueued file is taken by
\* exactly one worker: at any moment it is in the queue once, or held by one
\* worker, or has one transcript line, or was skipped after an error, and
\* never two of these; so it is transcribed at most once and has at most one
\* line.
C22_DequeuedByOneWorker ==
    \A f \in 1..stream_len :
        /\ Occurrences(transcript, f) <= 1
        /\ Occurrences(file_queue, f) + Cardinality(Holders(f))
               + Occurrences(transcript, f) + (IF f \in failed THEN 1 ELSE 0)
           = enq_count[f]
        /\ enq_count[f] <= 1

\* two workers, each holding a different file after the recognition call
C22_Witness ==
    /\ n_models = 2
    /\ wpc = <<"write", "write">>
    /\ wfile = <<1, 2>>
    /\ file_queue = <<>>

\* C25 (as stated): across the watcher's offline-then-online cycle, a file
\* enqueued before the cycle and retained on disk is not enqueued and not
\* transcribed a second time.
C25_NotEnqueuedAgainAfterRestart ==
    \A f \in 1..stream_len :
        /\ enq_count[f] <= 1
        /\ Occurrences(transcript, f) <= 1

\* file f was appended to the transcript or skipped after an exception
Processed(f) == f \in Range(transcript) \/ f \in failed

\* C23 (as stated): while running stays true and the threads are scheduled
\* fairly, every segment file on disk whose age exceeds the threshold is
\* eventually enqueued, and every enqueued file is eventually dequeued and
\* processed.
C23_EveryFileProcessed ==
    \A f \in 1..PipeFiles :
        /\ (f \in on_disk /\ Eligible(ctime[f], segment_time, now))
              ~> (enq_count[f] > 0)
        /\ (enq_count[f] > 0) ~> Processed(f)

\* the same with deletion off: nothing then removes a file the scanner has
\* listed, and every file is enqueued and processed
EveryFileProcessedKeepingFiles ==
    \A f \in 1..PipeFiles :
        /\ (~do_remove /\ f \in on_disk /\ Eligible(ctime[f], segment_time, now))
              ~> (enq_count[f] > 0)
        /\ (~do_remove /\ enq_count[f] > 0) ~> Processed(f)

\* every unit of the file belongs to a line that is in the file whole, from
\* its first unit to its last
WholeLines(bytes) ==
    \A i \in 1..Len(bytes) :
        LET f == bytes[i][1]
            s == i - bytes[i][2]
        IN  /\ s >= 0
            /\ s + LineUnits(f) <= Len(bytes)
            /\ \A k \in 1..LineUnits(f) : bytes[s + k] = <<f, k>>

\* C21 (as stated): with several workers appending and no lock, every line
\* of the transcript is wholly the output of one recognition result, never
\* parts of two workers' writes, and no partial line is in the file.
C21_AppendsAreAtomic == WholeLines(tbytes)

====
